---- MODULE Spec2Model ----
(***************************************************************************)
(* SimpleCache (a Map of {value, expiresAt} with lazy expiry on get) and   *)
(* RateLimiter (a Map of per-identifier request timestamps), as written in *)
(* the "Coding Challenges" of the interview guide.  Date.now() is the      *)
(* variable now; AdvanceClock is the passage of time between calls.        *)
(* The later sections model throttle, debounce, memoize, promiseAll,       *)
(* LazyLoader and RequestBatcher, each under a specification of its own in *)
(* which the other components are constructed and never called.            *)
(***************************************************************************)
EXTENDS Integers, Sequences, FiniteSets, TLC

\* ---------------------------------------------------------------- bounds
MaxTime == 3
MaxOps == 4
MaxTtl == 2
MaxCalls == 6
MaxWindowMs == 2
MaxRequests == 3
MaxInvokes == 3
MaxDelay == 2

Keys == {"a", "b"}
Values == {"v1", "v2"}
Identifiers == {"x", "y"}
\* the keys of a caller that also passes the empty string
AnyKeys == {"", "a"}

\* the value get returns for a miss, and the value of a method without return
NotFound == "null"
Undefined == "undefined"
\* set called with two arguments (no third argument at the call site)
NoTtl == 0
\* no third argument, one equal to a possible this.ttl, one different from every this.ttl
TtlArgs == {NoTtl, 1, MaxTtl + 1}

VARIABLES
    now,          \* Date.now()
    ttl,          \* SimpleCache.ttl
    cache,        \* SimpleCache.cache : key -> [value, expiresAt]
    maxRequests,  \* RateLimiter.maxRequests
    windowMs,     \* RateLimiter.windowMs
    requests,     \* RateLimiter.requests : identifier -> sequence of timestamps
    last,         \* the most recent step: the call, its arguments and its result
    nops,         \* number of calls made so far
    setAt,        \* history: time of the most recent set(k), -1 if none
    setVal,       \* history: value of the most recent set(k)
    prevExp,      \* history: expiresAt of the entry the most recent set(k) replaced, -1 if none
    hist,         \* history: what the calls made so far did to k last
    log,          \* history: the isAllowed calls of each identifier, [t, ok]
    inflight,     \* the isAllowed call each caller has in progress, if any
    done,         \* history: the last isAllowed call each caller completed
    throttleDelay,\* throttle: delay
    lastCall,     \* throttle: lastCall
    execs,        \* history: the executions of the throttled func, [t, args]
    debounceDelay,\* debounce: delay
    timeoutId,    \* debounce: timeoutId, 0 while undefined
    timers,       \* the pending setTimeout timers, [id, due, args]
    dcalls,       \* history: the calls of the debounced function, [t, args]
    ran,          \* history: the executions of the debounced func, [t, id, args, latest]
    memoCache,    \* memoize: cache, key -> result
    mcalls,       \* history: the calls of the memoized function, [args, result, invoked]
    paPromises,   \* promiseAll: promises, the argument
    paResults,    \* promiseAll: results
    paCompleted,  \* promiseAll: completed
    paOutcome,    \* promiseAll: the promise it returns, [state, value]
    microtasks,   \* the queue of promise reaction jobs
    paSettled,    \* history: the inputs in the order in which they settled
    llCache,      \* LazyLoader.cache
    llLoading,    \* LazyLoader.loading
    llPending,    \* LazyLoader.pending: the resolve functions, by the get() they belong to
    llLoads,      \* the invocations of the loader, [state, value, getter, resumed]
    llGets,       \* the promises returned by get(), [state, value, during, started]
    batchSize,    \* RequestBatcher.batchSize
    rbDelay,      \* RequestBatcher.delay
    rbQueue,      \* RequestBatcher.queue: the requests, by the add() they belong to
    rbTimer,      \* RequestBatcher.timer, 0 while null
    rbTimers,     \* the pending setTimeout timers of the batcher, [id, due, args]
    rbTimerIds,   \* the number of timers the batcher has set
    rbBatches,    \* the batches spliced off the queue, [requests, state, results, resumed]
    rbPromises    \* the promises returned by add(), [state, value, calls]

vars == <<now, ttl, cache, maxRequests, windowMs, requests, last, nops,
          setAt, setVal, prevExp, hist, log, inflight, done,
          throttleDelay, lastCall, execs,
          debounceDelay, timeoutId, timers, dcalls, ran,
          memoCache, mcalls,
          paPromises, paResults, paCompleted, paOutcome, microtasks, paSettled,
          llCache, llLoading, llPending, llLoads, llGets,
          batchSize, rbDelay, rbQueue, rbTimer, rbTimers, rbTimerIds, rbBatches, rbPromises>>
callerVars == <<inflight, done>>
throttleVars == <<throttleDelay, lastCall, execs>>
debounceVars == <<debounceDelay, timeoutId, timers, dcalls, ran>>
memoVars == <<memoCache, mcalls>>
\* the closures and classes of the other sections
paVars == <<paPromises, paResults, paCompleted, paOutcome, microtasks, paSettled>>
loaderVars == <<llCache, llLoading, llPending, llLoads, llGets>>
batcherVars == <<batchSize, rbDelay, rbQueue, rbTimer, rbTimers, rbTimerIds,
                 rbBatches, rbPromises>>
moreVars == <<memoVars, paVars, loaderVars, batcherVars>>
\* what the methods of SimpleCache and RateLimiter never touch
extVars == <<callerVars, throttleVars, debounceVars, moreVars>>
cacheVars == <<ttl, cache, setAt, setVal, prevExp, hist>>
limiterVars == <<maxRequests, windowMs, requests, log>>

EmptyMap == [k \in {} |-> 0]

\* ------------------------------------------------------------ Map helpers
Has(m, k) == k \in DOMAIN m

MapSetTruthyKey(m, k, e) ==
    IF k = "" THEN m ELSE [x \in (DOMAIN m) \cup {k} |-> IF x = k THEN e ELSE m[x]]
MapSetIfAbsent(m, k, e) ==
    [x \in (DOMAIN m) \cup {k} |-> IF x \in DOMAIN m THEN m[x] ELSE e]
\* Map.prototype.set
MapSet(m, k, e) == [x \in (DOMAIN m) \cup {k} |-> IF x = k THEN e ELSE m[x]]

MapDeleteNothing(m, k) == m
MapDeleteAll(m, k) == EmptyMap
\* Map.prototype.delete
MapDelete(m, k) == [x \in (DOMAIN m) \ {k} |-> m[x]]

\* ------------------------------------------------------------ SimpleCache
CacheEntryNoNow(value, nowT, ttlV) == [value |-> value, expiresAt |-> ttlV]
CacheEntryMinusTtl(value, nowT, ttlV) == [value |-> value, expiresAt |-> nowT - ttlV]
\* the object literal of set: {value, expiresAt: Date.now() + this.ttl}
CacheEntry(value, nowT, ttlV) == [value |-> value, expiresAt |-> nowT + ttlV]

IsExpiredLate(nowT, item) == nowT > item.expiresAt + 1
IsExpiredEarly(nowT, item) == nowT >= item.expiresAt - 1
\* the test of get: Date.now() > item.expiresAt
IsExpired(nowT, item) == nowT > item.expiresAt

ClearExpired(m, nowT) == [x \in {k \in DOMAIN m : ~IsExpired(nowT, m[k])} |-> m[x]]
\* Map.prototype.clear, as clear() calls it
ClearAll(m, nowT) == EmptyMap

Call(op, key, value, ttlMs, result) ==
    [op |-> op, key |-> key, value |-> value, ttlMs |-> ttlMs, result |-> result]

\* set(key, value): a third argument at the call site is not a parameter
Set(k, v, ttlMs) ==
    /\ nops < MaxOps
    /\ cache' = MapSet(cache, k, CacheEntry(v, now, ttl))
    /\ last' = Call("set", k, v, ttlMs, Undefined)
    /\ nops' = nops + 1
    /\ setAt' = [setAt EXCEPT ![k] = now]
    /\ setVal' = [setVal EXCEPT ![k] = v]
    /\ prevExp' = [prevExp EXCEPT ![k] = IF Has(cache, k) THEN cache[k].expiresAt ELSE -1]
    /\ hist' = [hist EXCEPT ![k] = IF Has(cache, k) THEN "overwritten" ELSE "set"]
    /\ UNCHANGED <<now, ttl, limiterVars>>
    /\ UNCHANGED extVars

\* get(key): null for an absent key; an expired entry is deleted and the call
\* returns null; otherwise the stored value
Get(k) ==
    /\ nops < MaxOps
    /\ nops' = nops + 1
    /\ IF ~Has(cache, k)
       THEN /\ last' = Call("get", k, "", NoTtl, NotFound)
            /\ UNCHANGED <<cache, hist>>
       ELSE IF IsExpired(now, cache[k])
       THEN /\ cache' = MapDelete(cache, k)
            /\ last' = Call("get", k, "", NoTtl, NotFound)
            /\ hist' = [hist EXCEPT ![k] = "evicted"]
       ELSE /\ last' = Call("get", k, "", NoTtl, cache[k].value)
            /\ UNCHANGED <<cache, hist>>
    /\ UNCHANGED <<now, ttl, setAt, setVal, prevExp, limiterVars>>
    /\ UNCHANGED extVars

\* delete(key): the boolean of Map.delete is dropped
Delete(k) ==
    /\ nops < MaxOps
    /\ cache' = MapDelete(cache, k)
    /\ last' = Call("delete", k, "", NoTtl, Undefined)
    /\ nops' = nops + 1
    /\ hist' = [hist EXCEPT ![k] = IF hist[k] = "never" THEN "never"
                                   ELSE IF hist[k] \in {"deleted", "deleted twice"}
                                        THEN "deleted twice" ELSE "deleted"]
    /\ UNCHANGED <<now, ttl, setAt, setVal, prevExp, limiterVars>>
    /\ UNCHANGED extVars

\* clear()
Clear ==
    /\ nops < MaxOps
    /\ cache' = ClearAll(cache, now)
    /\ last' = Call("clear", "", "", NoTtl, Undefined)
    /\ nops' = nops + 1
    /\ hist' = [k \in DOMAIN hist |-> IF hist[k] = "never" THEN "never" ELSE "cleared"]
    /\ UNCHANGED <<now, ttl, setAt, setVal, prevExp, limiterVars>>
    /\ UNCHANGED extVars

\* time passes between two calls
AdvanceClock(d) ==
    /\ now + d <= MaxTime
    /\ now' = now + d
    /\ last' = Call("advance", "", "", NoTtl, Undefined)
    /\ UNCHANGED <<nops, cacheVars, limiterVars>>
    /\ UNCHANGED extVars

\* ------------------------------------------------------------ RateLimiter
RequestsKeyShared(identifier) == "x"
\* the key of this.requests that isAllowed reads and writes
RequestsKey(identifier) == identifier

IsRecentInclusive(time, nowT, w) == nowT - time <= w
IsRecentShort(time, nowT, w) == nowT - time < w - 1
\* the filter of isAllowed: now - time < this.windowMs
IsRecent(time, nowT, w) == nowT - time < w

RECURSIVE Filter(_, _, _)
\* userRequests.filter(time => now - time < this.windowMs)
Filter(userRequests, nowT, w) ==
    IF userRequests = <<>> THEN <<>>
    ELSE IF IsRecent(Head(userRequests), nowT, w)
         THEN <<Head(userRequests)>> \o Filter(Tail(userRequests), nowT, w)
         ELSE Filter(Tail(userRequests), nowT, w)

AtLimitStrict(recentRequests, maxR) == Len(recentRequests) > maxR
\* recentRequests.length >= this.maxRequests
AtLimit(recentRequests, maxR) == Len(recentRequests) >= maxR

Bool(b) == IF b THEN "true" ELSE "false"

RequestsAfterAlwaysPush(reqs, key, recentRequests, nowT, allowed) ==
    MapSet(reqs, key, Append(recentRequests, nowT))
\* this.requests after the call: return false leaves the Map as it was,
\* otherwise the filtered list with now pushed is stored
RequestsAfter(reqs, key, recentRequests, nowT, allowed) ==
    IF allowed THEN MapSet(reqs, key, Append(recentRequests, nowT)) ELSE reqs

\* isAllowed(identifier)
IsAllowed(id) ==
    LET userRequests ==
            IF Has(requests, RequestsKey(id)) THEN requests[RequestsKey(id)] ELSE <<>>
        recentRequests == Filter(userRequests, now, windowMs)
        allowed == ~AtLimit(recentRequests, maxRequests)
    IN  /\ nops < MaxCalls
        /\ nops' = nops + 1
        /\ requests' = RequestsAfter(requests, RequestsKey(id), recentRequests, now, allowed)
        /\ last' = Call("isAllowed", id, "", NoTtl, Bool(allowed))
        /\ log' = [log EXCEPT ![id] = Append(@, [t |-> now, ok |-> allowed])]
        /\ UNCHANGED <<now, maxRequests, windowMs, cacheVars>>
        /\ UNCHANGED <<inflight, done, throttleVars, debounceVars, moreVars>>

Callers == {"c1", "c2"}
NoCall == [id |-> "", next |-> 0, t |-> 0, recent |-> <<>>, allowed |-> FALSE, raced |-> FALSE]
NoneDone == [id |-> "", t |-> 0, ok |-> FALSE, raced |-> FALSE]

\* no caller is inside isAllowed
CallersIdle ==
    /\ inflight = [c \in Callers |-> NoCall]
    /\ done = [c \in Callers |-> NoneDone]

\* no throttled function has been made
ThrottleIdle ==
    /\ throttleDelay = 1
    /\ lastCall = 0
    /\ execs = <<>>

\* no debounced function has been made
DebounceIdle ==
    /\ debounceDelay = 1
    /\ timeoutId = 0
    /\ timers = {}
    /\ dcalls = <<>>
    /\ ran = <<>>

\* no memoized function has been made
MemoIdle ==
    /\ memoCache = EmptyMap
    /\ mcalls = <<>>

\* a promise that nothing has resolved or rejected
Pending == [state |-> "pending", value |-> ""]

\* promiseAll has not been called
PromiseAllIdle ==
    /\ paPromises = <<>>
    /\ paResults = <<>>
    /\ paCompleted = 0
    /\ paOutcome = [state |-> "uncalled", value |-> <<>>]
    /\ microtasks = <<>>
    /\ paSettled = <<>>

\* new LazyLoader(loader), never called
LoaderIdle ==
    /\ llCache = "null"
    /\ llLoading = FALSE
    /\ llPending = <<>>
    /\ llLoads = <<>>
    /\ llGets = <<>>

\* new RequestBatcher(1, 1), never called
BatcherIdle ==
    /\ batchSize = 1
    /\ rbDelay = 1
    /\ rbQueue = <<>>
    /\ rbTimer = 0
    /\ rbTimers = {}
    /\ rbTimerIds = 0
    /\ rbBatches = <<>>
    /\ rbPromises = <<>>

MoreIdle == MemoIdle /\ PromiseAllIdle /\ LoaderIdle /\ BatcherIdle

ExtIdle == CallersIdle /\ ThrottleIdle /\ DebounceIdle /\ MoreIdle

\* new SimpleCache(ttl) with ttl > 0
CacheInit ==
    /\ ttl \in 1 .. MaxTtl
    /\ cache = EmptyMap
    /\ setAt = [k \in Keys |-> -1]
    /\ setVal = [k \in Keys |-> ""]
    /\ prevExp = [k \in Keys |-> -1]
    /\ hist = [k \in Keys |-> "never"]

\* new RateLimiter(maxRequests, windowMs), both > 0
LimiterInit ==
    /\ maxRequests \in 1 .. MaxRequests
    /\ windowMs \in 1 .. MaxWindowMs
    /\ requests = EmptyMap
    /\ log = [i \in Identifiers |-> <<>>]

\* a cache that is constructed and never called
CacheIdle ==
    /\ ttl = 1
    /\ cache = EmptyMap
    /\ setAt = [k \in Keys |-> -1]
    /\ setVal = [k \in Keys |-> ""]
    /\ prevExp = [k \in Keys |-> -1]
    /\ hist = [k \in Keys |-> "never"]

\* a limiter that is constructed and never called
LimiterIdle ==
    /\ maxRequests = 1
    /\ windowMs = 1
    /\ requests = EmptyMap
    /\ log = [i \in Identifiers |-> <<>>]

Init ==
    /\ now = 0
    /\ nops = 0
    /\ last = Call("new", "", "", NoTtl, Undefined)
    /\ CacheInit
    /\ LimiterIdle
    /\ ExtIdle

Next ==
    \/ \E k \in Keys, v \in Values, t \in TtlArgs : Set(k, v, t)
    \/ \E k \in Keys : Get(k)
    \/ \E k \in Keys : Delete(k)
    \/ Clear
    \/ \E d \in 1 .. MaxTime : AdvanceClock(d)

Spec == Init /\ [][Next]_vars

InitLimiter ==
    /\ now = 0
    /\ nops = 0
    /\ last = Call("new", "", "", NoTtl, Undefined)
    /\ CacheIdle
    /\ LimiterInit
    /\ ExtIdle

NextLimiter ==
    \/ \E id \in Identifiers : IsAllowed(id)
    \/ \E d \in 1 .. MaxTime : AdvanceClock(d)

SpecLimiter == InitLimiter /\ [][NextLimiter]_vars

\* a cache whose caller passes the empty string as a key
InitAnyKey ==
    /\ now = 0
    /\ nops = 0
    /\ last = Call("new", "", "", NoTtl, Undefined)
    /\ ttl \in 1 .. MaxTtl
    /\ cache = EmptyMap
    /\ setAt = [k \in AnyKeys |-> -1]
    /\ setVal = [k \in AnyKeys |-> ""]
    /\ prevExp = [k \in AnyKeys |-> -1]
    /\ hist = [k \in AnyKeys |-> "never"]
    /\ LimiterIdle
    /\ ExtIdle

NextAnyKey ==
    \/ \E k \in AnyKeys, v \in Values, t \in TtlArgs : Set(k, v, t)
    \/ \E k \in AnyKeys : Get(k)
    \/ \E k \in AnyKeys : Delete(k)
    \/ Clear
    \/ \E d \in 1 .. MaxTime : AdvanceClock(d)

SpecAnyKey == InitAnyKey /\ [][NextAnyKey]_vars

\* ------------------------------------------- RateLimiter, several callers
IsAllowedSegmentsAwaitBeforeWrite == <<"read-check", "write">>
\* The parts of isAllowed that run without giving up the thread: the body has
\* no await and no callback, so the read, the check and the write are one part.
IsAllowedSegments == <<"read-check-write">>

\* a request for id arrives; its handler, which calls isAllowed, is queued
Invoke(c, id) ==
    /\ nops < MaxInvokes
    /\ inflight[c] = NoCall
    /\ nops' = nops + 1
    /\ inflight' = [x \in Callers |->
          IF x = c
          THEN [NoCall EXCEPT !.id = id, !.next = 1,
                              !.raced = \E o \in Callers \ {c} : inflight[o].id = id]
          ELSE IF inflight[x].id = id THEN [inflight[x] EXCEPT !.raced = TRUE]
          ELSE inflight[x]]
    /\ last' = Call("invoke", id, "", NoTtl, Undefined)
    /\ UNCHANGED <<now, limiterVars, done, cacheVars, throttleVars, debounceVars, moreVars>>

\* the event loop runs the next part of c's isAllowed call to its end
RunSegment(c) ==
    LET call == inflight[c]
        id == call.id
        seg == IsAllowedSegments[call.next]
        reads == seg \in {"read-check-write", "read-check"}
        writes == seg \in {"read-check-write", "write"}
        userRequests ==
            IF Has(requests, RequestsKey(id)) THEN requests[RequestsKey(id)] ELSE <<>>
        nowT == IF reads THEN now ELSE call.t
        recentRequests == IF reads THEN Filter(userRequests, now, windowMs) ELSE call.recent
        allowed == IF reads THEN ~AtLimit(recentRequests, maxRequests) ELSE call.allowed
        returns == call.next = Len(IsAllowedSegments)
    IN  /\ call # NoCall
        /\ requests' = IF writes
                       THEN RequestsAfter(requests, RequestsKey(id), recentRequests, nowT, allowed)
                       ELSE requests
        /\ IF returns
           THEN /\ inflight' = [inflight EXCEPT ![c] = NoCall]
                /\ done' = [done EXCEPT ![c] =
                              [id |-> id, t |-> nowT, ok |-> allowed, raced |-> call.raced]]
                /\ log' = [log EXCEPT ![id] = Append(@, [t |-> nowT, ok |-> allowed])]
                /\ last' = Call("isAllowed", id, "", NoTtl, Bool(allowed))
           ELSE /\ inflight' = [inflight EXCEPT ![c] =
                              [call EXCEPT !.next = call.next + 1, !.t = nowT,
                                           !.recent = recentRequests, !.allowed = allowed]]
                /\ last' = Call("suspend", id, "", NoTtl, Undefined)
                /\ UNCHANGED <<done, log>>
        /\ UNCHANGED <<now, nops, maxRequests, windowMs, cacheVars, throttleVars, debounceVars>>
        /\ UNCHANGED moreVars

InitConcurrent ==
    /\ now = 0
    /\ nops = 0
    /\ last = Call("new", "", "", NoTtl, Undefined)
    /\ CacheIdle
    /\ LimiterInit
    /\ ExtIdle

NextConcurrent ==
    \/ \E c \in Callers, id \in Identifiers : Invoke(c, id)
    \/ \E c \in Callers : RunSegment(c)
    \/ \E d \in 1 .. MaxTime : AdvanceClock(d)

SpecConcurrent == InitConcurrent /\ [][NextConcurrent]_vars

\* constructor arguments that are not positive
NonPositive == {-1, 0}

\* new SimpleCache(ttl) with ttl <= 0: the constructor stores what it is given
CacheInitNonPositive ==
    /\ ttl \in NonPositive
    /\ cache = EmptyMap
    /\ setAt = [k \in Keys |-> -1]
    /\ setVal = [k \in Keys |-> ""]
    /\ prevExp = [k \in Keys |-> -1]
    /\ hist = [k \in Keys |-> "never"]

\* new RateLimiter(maxRequests, windowMs) with maxRequests <= 0 or windowMs <= 0
LimiterInitNonPositive ==
    /\ maxRequests \in NonPositive \cup {1}
    /\ windowMs \in NonPositive \cup {1}
    /\ maxRequests <= 0 \/ windowMs <= 0
    /\ requests = EmptyMap
    /\ log = [i \in Identifiers |-> <<>>]

\* a program that constructs one of the two classes with a non-positive argument
InitAnyConfig ==
    /\ now = 0
    /\ nops = 0
    /\ last = Call("new", "", "", NoTtl, Undefined)
    /\ \/ CacheInitNonPositive /\ LimiterIdle
       \/ CacheIdle /\ LimiterInitNonPositive
    /\ ExtIdle

\* and calls the instance it constructed
NextAnyConfig ==
    \/ ttl <= 0 /\ \E k \in Keys, v \in Values, t \in TtlArgs : Set(k, v, t)
    \/ ttl <= 0 /\ \E k \in Keys : Get(k)
    \/ ttl <= 0 /\ \E k \in Keys : Delete(k)
    \/ ttl <= 0 /\ Clear
    \/ ttl > 0 /\ \E id \in Identifiers : IsAllowed(id)
    \/ \E d \in 1 .. MaxTime : AdvanceClock(d)

SpecAnyConfig == InitAnyConfig /\ [][NextAnyConfig]_vars

\* ----------------------------------------------------------------- throttle
ThrottleReadyAnyLater(nowT, lastCallT, delay) == nowT - lastCallT > 0
\* the test of the throttled function: now - lastCall >= delay
ThrottleReady(nowT, lastCallT, delay) == nowT - lastCallT >= delay

\* a call of the function throttle(func, delay) returned: func runs, and its
\* result is returned, only if the test passes; otherwise nothing happens
ThrottledCall(args) ==
    /\ nops < MaxOps
    /\ nops' = nops + 1
    /\ IF ThrottleReady(now, lastCall, throttleDelay)
       THEN /\ lastCall' = now
            /\ execs' = Append(execs, [t |-> now, args |-> args])
            /\ last' = Call("throttled", "", args, NoTtl, "func(" \o args \o ")")
       ELSE /\ last' = Call("throttled", "", args, NoTtl, Undefined)
            /\ UNCHANGED <<lastCall, execs>>
    /\ UNCHANGED <<now, throttleDelay, cacheVars, limiterVars, callerVars, debounceVars>>
    /\ UNCHANGED moreVars

\* time passes between two calls (Date.now() is far above any delay)
Elapse(d) ==
    /\ now + d <= MaxDelay + MaxTime
    /\ now' = now + d
    /\ last' = Call("advance", "", "", NoTtl, Undefined)
    /\ UNCHANGED <<nops, cacheVars, limiterVars, extVars>>

\* throttle(func, delay) with delay > 0, made when Date.now() >= delay
InitThrottle ==
    /\ now = MaxDelay
    /\ nops = 0
    /\ last = Call("new", "", "", NoTtl, Undefined)
    /\ CacheIdle
    /\ LimiterIdle
    /\ CallersIdle
    /\ DebounceIdle
    /\ MoreIdle
    /\ throttleDelay \in 1 .. MaxDelay
    /\ lastCall = 0
    /\ execs = <<>>

NextThrottle ==
    \/ \E a \in Values : ThrottledCall(a)
    \/ \E d \in 1 .. MaxTime : Elapse(d)

SpecThrottle == InitThrottle /\ [][NextThrottle]_vars

\* ----------------------------------------------------------------- debounce
\* setTimeout(callback, delay): a new pending timer
SetTimeout(ts, id, due, args) == ts \cup {[id |-> id, due |-> due, args |-> args]}

ClearTimeoutNothing(ts, id) == ts
\* clearTimeout(id): the timer with that id, if it is still pending, is removed;
\* an undefined id or the id of a timer that has fired removes nothing
ClearTimeout(ts, id) == {tm \in ts : tm.id # id}

\* a timer may fire once its delay has passed
TimerDue(nowT, tm) == nowT >= tm.due

\* a call of the function debounce(func, delay) returned
DebouncedCall(args) ==
    LET id == Len(dcalls) + 1
    IN  /\ nops < MaxOps
        /\ nops' = nops + 1
        /\ timers' = SetTimeout(ClearTimeout(timers, timeoutId), id,
                                now + debounceDelay, args)
        /\ timeoutId' = id
        /\ dcalls' = Append(dcalls, [t |-> now, args |-> args])
        /\ last' = Call("debounced", "", args, NoTtl, Undefined)
        /\ UNCHANGED <<now, debounceDelay, ran, cacheVars, limiterVars, callerVars, throttleVars>>
        /\ UNCHANGED moreVars

\* a pending timer fires: its callback runs func.apply(this, args)
TimerFires(tm) ==
    /\ tm \in timers
    /\ TimerDue(now, tm)
    /\ timers' = timers \ {tm}
    /\ ran' = Append(ran, [t |-> now, id |-> tm.id, args |-> tm.args,
                           latest |-> Len(dcalls)])
    /\ last' = Call("timer", "", tm.args, NoTtl, "func(" \o tm.args \o ")")
    /\ UNCHANGED <<now, nops, debounceDelay, timeoutId, dcalls>>
    /\ UNCHANGED <<cacheVars, limiterVars, callerVars, throttleVars, moreVars>>

\* debounce(func, delay) with delay > 0
InitDebounce ==
    /\ now = 0
    /\ nops = 0
    /\ last = Call("new", "", "", NoTtl, Undefined)
    /\ CacheIdle
    /\ LimiterIdle
    /\ CallersIdle
    /\ ThrottleIdle
    /\ MoreIdle
    /\ debounceDelay \in 1 .. MaxDelay
    /\ timeoutId = 0
    /\ timers = {}
    /\ dcalls = <<>>
    /\ ran = <<>>

NextDebounce ==
    \/ \E a \in Values : DebouncedCall(a)
    \/ \E tm \in timers : TimerFires(tm)
    \/ \E d \in 1 .. MaxTime : AdvanceClock(d)

SpecDebounce == InitDebounce /\ [][NextDebounce]_vars

\* ------------------------------------------------------------------ memoize
\* what the closures and classes of the other sections never touch
baseVars == <<cacheVars, limiterVars, callerVars, throttleVars, debounceVars>>

\* JavaScript values, written as their source text
Falsy == {"0", "null", "undefined", "false", "NaN"}
\* the test of if (cache[key]): a property that is absent reads as undefined
Truthy(v) == v \notin Falsy

\* JSON.stringify of an array element: undefined is written as null
JsonElement(v) == IF v = "undefined" THEN "null" ELSE v

RECURSIVE JsonElements(_)
JsonElements(args) ==
    IF args = <<>> THEN ""
    ELSE IF Len(args) = 1 THEN JsonElement(Head(args))
    ELSE JsonElement(Head(args)) \o "," \o JsonElements(Tail(args))

\* JSON.stringify(args)
JsonStringify(args) == "[" \o JsonElements(args) \o "]"

\* the argument lists the memoized function is called with
ArgLists == {<<"1">>, <<"1", "2">>, <<"null">>, <<"undefined">>}
\* the values fn returns
FnResults == {"0", "7", "8"}

\* a call of the function memoize(fn) returned; r is what fn returns if invoked
MemoizedCall(args, r) ==
    LET key == JsonStringify(args)
        hit == Has(memoCache, key) /\ Truthy(memoCache[key])
        result == IF hit THEN memoCache[key] ELSE r
    IN  /\ nops < MaxOps
        /\ nops' = nops + 1
        /\ memoCache' = IF hit THEN memoCache ELSE MapSet(memoCache, key, r)
        /\ mcalls' = Append(mcalls, [args |-> args, result |-> result, invoked |-> ~hit])
        /\ last' = Call("memoized", key, "", NoTtl, result)
        /\ UNCHANGED <<now, baseVars, paVars, loaderVars, batcherVars>>

\* memoize(fn)
InitMemo ==
    /\ now = 0
    /\ nops = 0
    /\ last = Call("new", "", "", NoTtl, Undefined)
    /\ CacheIdle
    /\ LimiterIdle
    /\ CallersIdle
    /\ ThrottleIdle
    /\ DebounceIdle
    /\ memoCache = EmptyMap
    /\ mcalls = <<>>
    /\ PromiseAllIdle
    /\ LoaderIdle
    /\ BatcherIdle

NextMemo == \E args \in ArgLists, r \in FnResults : MemoizedCall(args, r)

SpecMemo == InitMemo /\ [][NextMemo]_vars

\* --------------------------------------------------------------- promiseAll
MaxInputs == 3
Reasons == {"e1", "e2"}
\* an index of an array that nothing was assigned to
Hole == "<empty>"

\* an element of the argument: a value that is not a promise, or a promise
\* that is fulfilled, rejected or still pending when promiseAll is called
InputChoices ==
    [kind : {"value", "promise"}, state : {"fulfilled"}, value : Values]
        \cup [kind : {"promise"}, state : {"rejected"}, value : Reasons]
        \cup {[kind |-> "promise", state |-> "pending", value |-> ""]}

\* Promise.resolve(promise): a promise is returned as it is, any other value
\* becomes a promise fulfilled with it
PromiseResolve(x) ==
    IF x.kind = "promise" THEN x
    ELSE [kind |-> "promise", state |-> "fulfilled", value |-> x.value]

ArrayPush(arr, index, value) == Append(arr, value)
\* results[index] = value (index counted from 1 here); the array grows to
\* hold the index and the indices skipped stay empty
ArrayAssign(arr, index, value) ==
    [i \in 1 .. (IF index > Len(arr) THEN index ELSE Len(arr)) |->
        IF i = index THEN value ELSE IF i <= Len(arr) THEN arr[i] ELSE Hole]

\* resolve(value) and reject(reason) of new Promise: the first call settles
\* the promise, every later call does nothing
SettleOnce(p, state, value) ==
    IF p.state = "pending" THEN [state |-> state, value |-> value] ELSE p

\* the reaction job of .then(value => ...), queued when its promise settles
ThenJob(index, p) ==
    [kind |-> "then", index |-> index, state |-> p.state, value |-> p.value]
\* the reaction job of .catch(reject), queued when the promise of .then settles
CatchJob(index, state, value) ==
    [kind |-> "catch", index |-> index, state |-> state, value |-> value]

RECURSIVE SettledFrom(_, _)
\* the indices from i on whose promise is settled, in the order of forEach
SettledFrom(ps, i) ==
    IF i > Len(ps) THEN <<>>
    ELSE IF ps[i].state # "pending" THEN <<i>> \o SettledFrom(ps, i + 1)
    ELSE SettledFrom(ps, i + 1)

\* promiseAll(promises): the executor of the promise it returns
PromiseAllCall ==
    LET ps == [i \in 1 .. Len(paPromises) |-> PromiseResolve(paPromises[i])]
        settled == SettledFrom(ps, 1)
    IN  /\ paOutcome.state = "uncalled"
        /\ paPromises' = ps
        /\ paOutcome' = IF Len(paPromises) = 0
                        THEN [state |-> "fulfilled", value |-> <<>>]
                        ELSE [state |-> "pending", value |-> <<>>]
        /\ microtasks' = [j \in 1 .. Len(settled) |-> ThenJob(settled[j], ps[settled[j]])]
        /\ paSettled' = settled
        /\ last' = Call("promiseAll", "", "", NoTtl, Undefined)
        /\ UNCHANGED <<paResults, paCompleted>>
        /\ UNCHANGED <<now, nops, baseVars, memoVars, loaderVars, batcherVars>>

\* a pending input is fulfilled or rejected by whoever made it
SettleInput(i, state, value) ==
    /\ paOutcome.state # "uncalled"
    /\ i \in 1 .. Len(paPromises)
    /\ paPromises[i].state = "pending"
    /\ paPromises' = [paPromises EXCEPT ![i] = [@ EXCEPT !.state = state, !.value = value]]
    /\ microtasks' = Append(microtasks, ThenJob(i, paPromises'[i]))
    /\ paSettled' = Append(paSettled, i)
    /\ last' = Call("settle", "", value, NoTtl, state)
    /\ UNCHANGED <<paResults, paCompleted, paOutcome>>
    /\ UNCHANGED <<now, nops, baseVars, memoVars, loaderVars, batcherVars>>

\* the oldest reaction job runs
RunMicrotask ==
    LET job == Head(microtasks)
        results == ArrayAssign(paResults, job.index, job.value)
        completed == paCompleted + 1
    IN  /\ microtasks # <<>>
        /\ IF job.kind = "then" /\ job.state = "fulfilled"
           THEN /\ paResults' = results
                /\ paCompleted' = completed
                /\ paOutcome' = IF completed = Len(paPromises)
                                THEN SettleOnce(paOutcome, "fulfilled", results)
                                ELSE paOutcome
                /\ microtasks' = Append(Tail(microtasks),
                                        CatchJob(job.index, "fulfilled", Undefined))
           ELSE IF job.kind = "then"
           THEN /\ microtasks' = Append(Tail(microtasks),
                                        CatchJob(job.index, "rejected", job.value))
                /\ UNCHANGED <<paResults, paCompleted, paOutcome>>
           ELSE IF job.state = "rejected"
           THEN /\ paOutcome' = SettleOnce(paOutcome, "rejected", <<job.value>>)
                /\ microtasks' = Tail(microtasks)
                /\ UNCHANGED <<paResults, paCompleted>>
           ELSE /\ microtasks' = Tail(microtasks)
                /\ UNCHANGED <<paResults, paCompleted, paOutcome>>
        /\ last' = Call("microtask", "", job.value, NoTtl, job.kind)
        /\ UNCHANGED <<paPromises, paSettled>>
        /\ UNCHANGED <<now, nops, baseVars, memoVars, loaderVars, batcherVars>>

\* the argument has been built and promiseAll is about to be called
InitPromiseAll ==
    /\ now = 0
    /\ nops = 0
    /\ last = Call("new", "", "", NoTtl, Undefined)
    /\ CacheIdle
    /\ LimiterIdle
    /\ CallersIdle
    /\ ThrottleIdle
    /\ DebounceIdle
    /\ MemoIdle
    /\ paPromises \in UNION {[1 .. n -> InputChoices] : n \in 0 .. MaxInputs}
    /\ paResults = <<>>
    /\ paCompleted = 0
    /\ paOutcome = [state |-> "uncalled", value |-> <<>>]
    /\ microtasks = <<>>
    /\ paSettled = <<>>
    /\ LoaderIdle
    /\ BatcherIdle

NextPromiseAll ==
    \/ PromiseAllCall
    \/ \E i \in 1 .. MaxInputs, v \in Values : SettleInput(i, "fulfilled", v)
    \/ \E i \in 1 .. MaxInputs, e \in Reasons : SettleInput(i, "rejected", e)
    \/ RunMicrotask

SpecPromiseAll == InitPromiseAll /\ [][NextPromiseAll]_vars

\* --------------------------------------------------------------- LazyLoader
\* what a loader resolves with: a value, or one that is falsy
LoadValues == Values \cup {"0"}

\* the invocations of the loader whose get() has not finished
Unfinished(loads) == {l \in 1 .. Len(loads) : ~loads[l].resumed}
LatestUnfinished(loads) ==
    IF Unfinished(loads) = {} THEN 0
    ELSE CHOOSE l \in Unfinished(loads) : \A o \in Unfinished(loads) : l >= o

\* resolve(value) or a rejection of the promise of one get(); a promise that
\* is settled stays as it is
SettleGet(g, state, value) ==
    IF g.state = "pending" THEN [g EXCEPT !.state = state, !.value = value] ELSE g

\* the promises after get() number getter returned value and
\* this.pending.forEach(resolve => resolve(this.cache)) ran
ResolvePending(gets, pending, getter, value) ==
    [g \in 1 .. Len(gets) |->
        IF g = getter \/ \E i \in 1 .. Len(pending) : pending[i] = g
        THEN SettleGet(gets[g], "fulfilled", value)
        ELSE gets[g]]

\* get(), up to its first await or its return
LoaderGet ==
    LET id == Len(llGets) + 1
        during == LatestUnfinished(llLoads)
    IN  /\ nops < MaxOps
        /\ nops' = nops + 1
        /\ IF Truthy(llCache)
           THEN /\ llGets' = Append(llGets, [state |-> "fulfilled", value |-> llCache,
                                             during |-> during, started |-> 0])
                /\ last' = Call("get", "", "", NoTtl, llCache)
                /\ UNCHANGED <<llLoading, llPending, llLoads>>
           ELSE IF llLoading
           THEN /\ llPending' = Append(llPending, id)
                /\ llGets' = Append(llGets, [state |-> "pending", value |-> "",
                                             during |-> during, started |-> 0])
                /\ last' = Call("get", "", "", NoTtl, "queued")
                /\ UNCHANGED <<llLoading, llLoads>>
           ELSE /\ llLoading' = TRUE
                /\ llLoads' = Append(llLoads, [state |-> "inflight", value |-> "",
                                               getter |-> id, resumed |-> FALSE])
                /\ llGets' = Append(llGets, [state |-> "pending", value |-> "",
                                             during |-> during,
                                             started |-> Len(llLoads) + 1])
                /\ last' = Call("get", "", "", NoTtl, "loading")
                /\ UNCHANGED llPending
        /\ UNCHANGED llCache
        /\ UNCHANGED <<now, baseVars, memoVars, paVars, batcherVars>>

\* the promise of this.loader() is fulfilled or rejected
LoaderSettles(l, state, value) ==
    /\ l \in 1 .. Len(llLoads)
    /\ llLoads[l].state = "inflight"
    /\ llLoads' = [llLoads EXCEPT ![l] = [@ EXCEPT !.state = state, !.value = value]]
    /\ last' = Call("loader", "", value, NoTtl, state)
    /\ UNCHANGED <<llCache, llLoading, llPending, llGets>>
    /\ UNCHANGED <<now, nops, baseVars, memoVars, paVars, batcherVars>>

\* get() continues after await this.loader(): the rest of try, then finally
LoaderResumes(l) ==
    /\ l \in 1 .. Len(llLoads)
    /\ llLoads[l].state # "inflight"
    /\ ~llLoads[l].resumed
    /\ llLoads' = [llLoads EXCEPT ![l] = [@ EXCEPT !.resumed = TRUE]]
    /\ IF llLoads[l].state = "fulfilled"
       THEN /\ llCache' = llLoads[l].value
            /\ llGets' = ResolvePending(llGets, llPending, llLoads[l].getter, llLoads[l].value)
            /\ llPending' = <<>>
       ELSE /\ llGets' = [llGets EXCEPT ![llLoads[l].getter] =
                              SettleGet(@, "rejected", llLoads[l].value)]
            /\ UNCHANGED <<llCache, llPending>>
    /\ llLoading' = FALSE
    /\ last' = Call("resume", "", llLoads[l].value, NoTtl, llLoads[l].state)
    /\ UNCHANGED <<now, nops, baseVars, memoVars, paVars, batcherVars>>

\* invalidate()
LoaderInvalidate ==
    /\ nops < MaxOps
    /\ nops' = nops + 1
    /\ llCache' = "null"
    /\ last' = Call("invalidate", "", "", NoTtl, Undefined)
    /\ UNCHANGED <<llLoading, llPending, llLoads, llGets>>
    /\ UNCHANGED <<now, baseVars, memoVars, paVars, batcherVars>>

\* new LazyLoader(loader)
InitLoader ==
    /\ now = 0
    /\ nops = 0
    /\ last = Call("new", "", "", NoTtl, Undefined)
    /\ CacheIdle
    /\ LimiterIdle
    /\ CallersIdle
    /\ ThrottleIdle
    /\ DebounceIdle
    /\ MemoIdle
    /\ PromiseAllIdle
    /\ llCache = "null"
    /\ llLoading = FALSE
    /\ llPending = <<>>
    /\ llLoads = <<>>
    /\ llGets = <<>>
    /\ BatcherIdle

LoaderSettlesSome ==
    \/ \E l \in 1 .. MaxOps, v \in LoadValues : LoaderSettles(l, "fulfilled", v)
    \/ \E l \in 1 .. MaxOps, e \in Reasons : LoaderSettles(l, "rejected", e)

LoaderResumesSome == \E l \in 1 .. MaxOps : LoaderResumes(l)

NextLoader ==
    \/ LoaderGet
    \/ LoaderSettlesSome
    \/ LoaderResumesSome
    \/ LoaderInvalidate

SpecLoader == InitLoader /\ [][NextLoader]_vars

\* every invocation of the loader settles, and a get() that can continue does
SpecLoaderFair ==
    SpecLoader /\ WF_vars(LoaderSettlesSome) /\ WF_vars(LoaderResumesSome)

\* ----------------------------------------------------------- RequestBatcher
MaxBatchSize == 2
MaxAdds == 3

\* Array.prototype.splice(0, n): the number of elements it removes
SpliceCount(q, n) == IF n > Len(q) THEN Len(q) ELSE IF n < 0 THEN 0 ELSE n
\* the elements splice returns, and the ones it leaves in the array
Spliced(q, n) == SubSeq(q, 1, SpliceCount(q, n))
SpliceRest(q, n) == SubSeq(q, SpliceCount(q, n) + 1, Len(q))

ResultAtFirst(results, index) == results[1]
\* results[index] (index counted from 1 here)
ResultAt(results, index) == results[index]

\* item.resolve(value) or item.reject(err) of the promise of one add()
SettleAdd(p, state, value) ==
    IF p.state = "pending"
    THEN [p EXCEPT !.state = state, !.value = value, !.calls = @ + 1]
    ELSE [p EXCEPT !.calls = @ + 1]

\* the index of the item of add() number id in a batch
PositionIn(batch, id) == CHOOSE i \in 1 .. Len(batch) : batch[i] = id
InBatch(batch, id) == \E i \in 1 .. Len(batch) : batch[i] = id

\* processBatch() up to its await, called with queue q, this.timer tmr and
\* the pending timers ts
ProcessBatchStart(q, tmr, ts) ==
    /\ rbTimer' = 0
    /\ rbTimers' = IF tmr # 0 THEN ClearTimeout(ts, tmr) ELSE ts
    /\ IF Len(q) = 0
       THEN /\ rbQueue' = q
            /\ UNCHANGED rbBatches
       ELSE /\ rbQueue' = SpliceRest(q, batchSize)
            /\ rbBatches' = Append(rbBatches,
                                   [requests |-> Spliced(q, batchSize), state |-> "processing",
                                    results |-> <<>>, resumed |-> FALSE])

\* add(request): the request is written as the number of the call, which is
\* what the queue, the batches and processBatchRequests hold of it
BatcherAdd ==
    LET id == Len(rbPromises) + 1
        q == Append(rbQueue, id)
    IN  /\ Len(rbPromises) < MaxAdds
        /\ nops' = nops + 1
        /\ rbPromises' = Append(rbPromises, [state |-> "pending", value |-> "", calls |-> 0])
        /\ IF Len(q) >= batchSize
           THEN /\ ProcessBatchStart(q, rbTimer, rbTimers)
                /\ UNCHANGED rbTimerIds
           ELSE IF rbTimer = 0
           THEN /\ rbTimer' = rbTimerIds + 1
                /\ rbTimers' = SetTimeout(rbTimers, rbTimerIds + 1, now + rbDelay, "")
                /\ rbTimerIds' = rbTimerIds + 1
                /\ rbQueue' = q
                /\ UNCHANGED rbBatches
           ELSE /\ rbQueue' = q
                /\ UNCHANGED <<rbTimer, rbTimers, rbTimerIds, rbBatches>>
        /\ last' = Call("add", "", "", NoTtl, Undefined)
        /\ UNCHANGED <<batchSize, rbDelay>>
        /\ UNCHANGED <<now, baseVars, memoVars, paVars, loaderVars>>

\* a timer of the batcher fires: its callback calls processBatch()
BatcherTimerFires(tm) ==
    /\ tm \in rbTimers
    /\ TimerDue(now, tm)
    /\ ProcessBatchStart(rbQueue, rbTimer, rbTimers \ {tm})
    /\ last' = Call("timer", "", "", NoTtl, Undefined)
    /\ UNCHANGED <<batchSize, rbDelay, rbTimerIds, rbPromises>>
    /\ UNCHANGED <<now, nops, baseVars, memoVars, paVars, loaderVars>>

\* the promise of processBatchRequests(requests) is fulfilled or rejected
BatchSettles(b, state, results) ==
    /\ b \in 1 .. Len(rbBatches)
    /\ rbBatches[b].state = "processing"
    /\ state = "fulfilled" => Len(results) = Len(rbBatches[b].requests)
    /\ rbBatches' = [rbBatches EXCEPT ![b] = [@ EXCEPT !.state = state, !.results = results]]
    /\ last' = Call("processBatchRequests", "", "", NoTtl, state)
    /\ UNCHANGED <<batchSize, rbDelay, rbQueue, rbTimer, rbTimers, rbTimerIds, rbPromises>>
    /\ UNCHANGED <<now, nops, baseVars, memoVars, paVars, loaderVars>>

\* processBatch() continues after its await: the callers of the batch are
\* resolved or rejected, and a timer is set if the queue is not empty
BatchResumes(b) ==
    LET batch == rbBatches[b].requests
        results == rbBatches[b].results
    IN  /\ b \in 1 .. Len(rbBatches)
        /\ rbBatches[b].state # "processing"
        /\ ~rbBatches[b].resumed
        /\ rbBatches' = [rbBatches EXCEPT ![b] = [@ EXCEPT !.resumed = TRUE]]
        /\ rbPromises' = [id \in 1 .. Len(rbPromises) |->
              IF ~InBatch(batch, id) THEN rbPromises[id]
              ELSE IF rbBatches[b].state = "fulfilled"
              THEN SettleAdd(rbPromises[id], "fulfilled",
                             ResultAt(results, PositionIn(batch, id)))
              ELSE SettleAdd(rbPromises[id], "rejected", results[1])]
        /\ IF Len(rbQueue) > 0
           THEN /\ rbTimer' = rbTimerIds + 1
                /\ rbTimers' = SetTimeout(rbTimers, rbTimerIds + 1, now + rbDelay, "")
                /\ rbTimerIds' = rbTimerIds + 1
           ELSE UNCHANGED <<rbTimer, rbTimers, rbTimerIds>>
        /\ last' = Call("resume", "", "", NoTtl, rbBatches[b].state)
        /\ UNCHANGED <<batchSize, rbDelay, rbQueue>>
        /\ UNCHANGED <<now, nops, baseVars, memoVars, paVars, loaderVars>>

\* new RequestBatcher(batchSize, delay), both > 0
InitBatcher ==
    /\ now = 0
    /\ nops = 0
    /\ last = Call("new", "", "", NoTtl, Undefined)
    /\ CacheIdle
    /\ LimiterIdle
    /\ CallersIdle
    /\ ThrottleIdle
    /\ DebounceIdle
    /\ MemoIdle
    /\ PromiseAllIdle
    /\ LoaderIdle
    /\ batchSize \in 1 .. MaxBatchSize
    /\ rbDelay \in 1 .. MaxDelay
    /\ rbQueue = <<>>
    /\ rbTimer = 0
    /\ rbTimers = {}
    /\ rbTimerIds = 0
    /\ rbBatches = <<>>
    /\ rbPromises = <<>>

\* what processBatchRequests resolves with for a batch of n requests
BatchResults == UNION {[1 .. n -> Values] : n \in 1 .. MaxBatchSize}

\* what it rejects with
BatchErrors == {"e1"}

NextBatcher ==
    \/ BatcherAdd
    \/ \E tm \in rbTimers : BatcherTimerFires(tm)
    \/ \E b \in 1 .. MaxAdds, rs \in BatchResults : BatchSettles(b, "fulfilled", rs)
    \/ \E b \in 1 .. MaxAdds, e \in BatchErrors : BatchSettles(b, "rejected", <<e>>)
    \/ \E b \in 1 .. MaxAdds : BatchResumes(b)
    \/ \E d \in 1 .. MaxTime : AdvanceClock(d)

SpecBatcher == InitBatcher /\ [][NextBatcher]_vars

\* ------------------------------------------------------- SimpleCache claims

\* C1 as stated: a get(k) made when now >= expiresAt of k's entry, the instant
\* now = expiresAt included, returns not-found.
C1_ExpiredAtExpiresAt ==
    [][\A k \in Keys :
        (last'.op = "get" /\ last'.key = k /\ Has(cache, k) /\ now >= cache[k].expiresAt)
            => last'.result = NotFound]_vars

\* C1 amended: a get(k) made when now > expiresAt of k's entry, i.e. when more
\* than ttl ms have passed since the most recent set(k), returns not-found; at
\* the instant now = expiresAt the stored value is still returned.
C1_ExpiredAfterExpiresAt ==
    [][\A k \in Keys :
        (last'.op = "get" /\ last'.key = k) =>
            /\ (Has(cache, k) /\ now > cache[k].expiresAt) => last'.result = NotFound
            /\ (setAt[k] >= 0 /\ now > setAt[k] + ttl) => last'.result = NotFound
            /\ (Has(cache, k) /\ now = cache[k].expiresAt) => last'.result = cache[k].value]_vars

C1_Witness ==
    /\ last.op = "get"
    /\ last.result = NotFound
    /\ hist[last.key] = "evicted"
    /\ now > setAt[last.key] + ttl

\* C2: set(k, v) followed by get(k) with no clock advance in between returns v,
\* whatever the state of k before the set.
C2_RoundTrip ==
    [][(last.op = "set" /\ last'.op = "get" /\ last'.key = last.key)
            => last'.result = last.value]_vars

\* the set replaced an entry that had expired and was still in the store
C2_Witness ==
    /\ last.op = "get"
    /\ hist[last.key] = "overwritten"
    /\ setAt[last.key] = now
    /\ prevExp[last.key] >= 0
    /\ prevExp[last.key] < now
    /\ last.result = setVal[last.key]

\* C5: after set(k, v2) over an existing entry the expiry is (time of that set)
\* + ttl, and every get(k) before that instant returns v2.
C5_OverwriteResetsTtl ==
    [][\A k \in Keys :
        /\ hist'[k] = "overwritten" =>
              (Has(cache', k) /\ cache'[k].expiresAt = setAt'[k] + ttl'
                              /\ cache'[k].value = setVal'[k])
        /\ (last'.op = "get" /\ last'.key = k /\ hist[k] = "overwritten"
               /\ now < setAt[k] + ttl) => last'.result = setVal[k]]_vars

\* the get is made after the expiry time of the entry that was overwritten
C5_Witness ==
    /\ last.op = "get"
    /\ hist[last.key] = "overwritten"
    /\ prevExp[last.key] >= 0
    /\ now > prevExp[last.key]
    /\ now < setAt[last.key] + ttl
    /\ last.result = setVal[last.key]

\* C6 as stated: set with a positive third argument ttlMs stores expiresAt =
\* now + ttlMs, and now + the cache's ttl only when ttlMs is omitted.
C6_PerCallTtl ==
    last.op = "set" =>
        /\ Has(cache, last.key)
        /\ cache[last.key].expiresAt =
              now + (IF last.ttlMs # NoTtl THEN last.ttlMs ELSE ttl)

\* C6 amended: set stores expiresAt = now + the cache's ttl, whether or not a
\* third argument is passed.
C6_AlwaysCacheTtl ==
    last.op = "set" =>
        /\ Has(cache, last.key)
        /\ cache[last.key] = [value |-> last.value, expiresAt |-> now + ttl]

C6_Witness ==
    /\ last.op = "set"
    /\ last.ttlMs # NoTtl
    /\ last.ttlMs # ttl
    /\ now > 0
    /\ cache[last.key].expiresAt = now + ttl

\* C7 as stated: delete(k) returns true exactly when an entry for k was present.
C7_DeleteReturnsBoolean ==
    [][last'.op = "delete" =>
          last'.result = (IF Has(cache, last'.key) THEN "true" ELSE "false")]_vars

\* C7 amended: delete(k) removes k's entry when there is one and changes nothing
\* when there is none; it returns undefined in both cases.
C7_DeleteReturnsUndefined ==
    [][last'.op = "delete" =>
          /\ last'.result = Undefined
          /\ ~Has(cache', last'.key)
          /\ DOMAIN cache' = (DOMAIN cache) \ {last'.key}
          /\ (~Has(cache, last'.key) => cache' = cache)]_vars

\* a second delete of a key that was set and then deleted
C7_Witness ==
    /\ last.op = "delete"
    /\ last.result = Undefined
    /\ hist[last.key] = "deleted twice"
    /\ ~Has(cache, last.key)

\* C8: clear() leaves the store empty, and get(k) of a key set before the clear
\* returns not-found until k is set again.
C8_ClearEmpties ==
    [][/\ last'.op = "clear" => (cache' = EmptyMap /\ last'.result = Undefined)
       /\ \A k \in Keys :
            (last'.op = "get" /\ last'.key = k /\ hist[k] = "cleared")
                => last'.result = NotFound]_vars

\* the key was not expired when it was cleared and read
C8_Witness ==
    /\ last.op = "get"
    /\ hist[last.key] = "cleared"
    /\ setAt[last.key] >= 0
    /\ now < setAt[last.key] + ttl
    /\ last.result = NotFound

\* C9: set(a), get(a) and delete(a) leave the entry of every other key as it was.
C9_KeysIndependent ==
    [][\A a \in Keys :
        (last'.op \in {"set", "get", "delete"} /\ last'.key = a) =>
            \A b \in Keys \ {a} :
                /\ Has(cache', b) <=> Has(cache, b)
                /\ Has(cache, b) => cache'[b] = cache[b]]_vars

\* a get that evicted its own expired entry while another key is stored
C9_Witness ==
    /\ last.op = "get"
    /\ hist[last.key] = "evicted"
    /\ \E b \in Keys \ {last.key} : Has(cache, b)

\* ------------------------------------------------------- RateLimiter claims

\* the calls of id admitted so far that are less than windowMs old
RecentAdmits(id) ==
    {i \in 1 .. Len(log[id]) : log[id][i].ok /\ now - log[id][i].t < windowMs}

\* C3: of the consecutive isAllowed calls a fresh identifier makes with no clock
\* advance, exactly the first min(n, maxRequests) return true.
C3_AdmitsExactlyMax ==
    \A id \in Identifiers :
        \A i \in 1 .. Len(log[id]) :
            log[id][i].t = log[id][1].t => (log[id][i].ok <=> i <= maxRequests)

\* maxRequests = 3 and five calls at one instant: true, true, true, false, false
C3_Witness ==
    /\ maxRequests = 3
    /\ \E id \in Identifiers :
        /\ Len(log[id]) = 5
        /\ log[id][5].t = log[id][1].t
        /\ [i \in 1 .. 5 |-> log[id][i].ok] = <<TRUE, TRUE, TRUE, FALSE, FALSE>>

\* C4: when every admitted call of the identifier is at least windowMs old,
\* exactly windowMs included, the next isAllowed returns true.
C4_AdmittedAfterWindow ==
    [][\A id \in Identifiers :
        (/\ last'.op = "isAllowed"
         /\ last'.key = id
         /\ \A i \in 1 .. Len(log[id]) : log[id][i].ok => now - log[id][i].t >= windowMs)
            => last'.result = "true"]_vars

\* admitted, rejected, then admitted again exactly windowMs after the admitted call
C4_Witness ==
    /\ last.op = "isAllowed"
    /\ last.result = "true"
    /\ \E id \in Identifiers :
        LET n == Len(log[id]) IN
        /\ last.key = id
        /\ n >= 3
        /\ log[id][n].t = now
        /\ ~log[id][n - 1].ok
        /\ log[id][n - 2].ok
        /\ log[id][n - 2].t = now - windowMs

\* C10: an isAllowed call of x leaves the record of every other identifier as it
\* was, and the result for x is decided by x's own admitted calls alone.
C10_IdentifiersIndependent ==
    [][\A x \in Identifiers :
        (last'.op = "isAllowed" /\ last'.key = x) =>
            /\ \A y \in Identifiers \ {x} :
                  /\ Has(requests', y) <=> Has(requests, y)
                  /\ Has(requests, y) => requests'[y] = requests[y]
                  /\ log'[y] = log[y]
            /\ last'.result = Bool(Cardinality(RecentAdmits(x)) < maxRequests)]_vars

\* x is rejected with its quota used up, y has been admitted and has quota left
C10_Witness ==
    /\ last.op = "isAllowed"
    /\ last.result = "false"
    /\ \E y \in Identifiers \ {last.key} :
        /\ Has(requests, y)
        /\ Len(requests[y]) < maxRequests
        /\ Cardinality(RecentAdmits(y)) = Len(requests[y])
        /\ Len(requests[y]) > 0

\* ------------------------------------------------- error handling claims

\* C11 as stated: set, get and delete called with the empty key fail with an
\* input-validation error and store or remove nothing.
C11_EmptyKeyRejected ==
    [][(last'.op \in {"set", "get", "delete"} /\ last'.key = "")
            => (last'.result = "error" /\ cache' = cache)]_vars

\* C11 amended: the empty key is a key like any other; set stores an entry
\* under it, get returns that entry's value, delete removes it, and none of
\* the three signals an error.
C11_EmptyKeyAccepted ==
    [][/\ (last'.op = "set" /\ last'.key = "") =>
            /\ last'.result = Undefined
            /\ Has(cache', "")
            /\ cache'[""] = [value |-> last'.value, expiresAt |-> now + ttl]
       /\ (last'.op = "get" /\ last'.key = "") =>
            last'.result = (IF Has(cache, "") /\ now <= cache[""].expiresAt
                            THEN cache[""].value ELSE NotFound)
       /\ (last'.op = "delete" /\ last'.key = "") =>
            (last'.result = Undefined /\ ~Has(cache', ""))]_vars

\* a value stored under the empty key is read back
C11_Witness ==
    /\ last.op = "get"
    /\ last.key = ""
    /\ Has(cache, "")
    /\ last.result = cache[""].value

\* C12 as stated: no instance with a non-positive ttl, maxRequests or windowMs
\* exists, and no call runs with such a configuration.
C12_InvalidConfigNeverRuns ==
    last.op \in {"set", "get", "delete", "clear", "isAllowed"}
        => (ttl > 0 /\ maxRequests > 0 /\ windowMs > 0)

\* C12 amended: the constructors validate nothing and the calls run with the
\* values given: with ttl < 0 a get right after set misses, with ttl = 0 it
\* hits; with maxRequests <= 0 isAllowed always returns false; with
\* maxRequests > 0 and windowMs <= 0 it always returns true.
C12_InvalidConfigRuns ==
    [][/\ last'.result # "error"
       /\ last'.op = "set" =>
            cache'[last'.key] = [value |-> last'.value, expiresAt |-> now + ttl]
       /\ (last.op = "set" /\ last'.op = "get" /\ last'.key = last.key) =>
            last'.result = (IF ttl < 0 THEN NotFound ELSE last.value)
       /\ (last'.op = "isAllowed" /\ maxRequests <= 0) => last'.result = "false"
       /\ (last'.op = "isAllowed" /\ maxRequests > 0 /\ windowMs <= 0)
            => last'.result = "true"]_vars

\* a cache with a negative ttl misses the value that was just set
C12_Witness ==
    /\ ttl < 0
    /\ last.op = "get"
    /\ setAt[last.key] = now
    /\ hist[last.key] = "evicted"
    /\ last.result = NotFound

\* ------------------------------------------- RateLimiter window claims

\* The window of the fixed-window limiter that C13 and C14 describe, after the
\* first n calls of lg: [start, count], start = -1 while there is no window.
RECURSIVE FixedWindowAfter(_, _)
FixedWindowAfter(lg, n) ==
    IF n = 0 THEN [start |-> -1, count |-> 0]
    ELSE LET p == FixedWindowAfter(lg, n - 1)
             t == lg[n].t
         IN  IF p.start = -1 \/ t - p.start >= windowMs
             THEN [start |-> t, count |-> 1]
             ELSE IF p.count < maxRequests
                  THEN [start |-> p.start, count |-> p.count + 1]
                  ELSE p

\* what that limiter answers to the n-th call of lg
FixedWindowAdmits(lg, n) ==
    LET p == FixedWindowAfter(lg, n - 1)
    IN  p.start = -1 \/ lg[n].t - p.start >= windowMs \/ p.count < maxRequests

\* the calls of lg before the n-th that were admitted less than windowMs before it
AdmittedBefore(lg, n) ==
    {j \in 1 .. n - 1 : lg[j].ok /\ lg[n].t - lg[j].t < windowMs}

\* the times of the admitted calls of lg, in order
AdmittedTimes(lg) ==
    LET adm == SelectSeq(lg, LAMBDA c : c.ok)
    IN  [i \in 1 .. Len(adm) |-> adm[i].t]

\* C13 as stated: once now - windowStart >= windowMs the whole window is reset
\* to {count: 1, windowStart: now}, so every call is answered as by a
\* fixed-window counter and maxRequests calls are admitted in the new window.
C13_WholeWindowReset ==
    \A id \in Identifiers :
        \A n \in 1 .. Len(log[id]) :
            log[id][n].ok <=> FixedWindowAdmits(log[id], n)

\* C13 amended: there is no window start and no reset; a call is admitted
\* exactly when fewer than maxRequests admitted calls are less than windowMs
\* old, and the list stored for the identifier is the admitted timestamps that
\* were less than windowMs old at the last admitted call.
C13_EachCallExpiresAlone ==
    \A id \in Identifiers :
        /\ \A n \in 1 .. Len(log[id]) :
              log[id][n].ok <=> Cardinality(AdmittedBefore(log[id], n)) < maxRequests
        /\ LET times == AdmittedTimes(log[id])
           IN  IF times = <<>> THEN ~Has(requests, id)
               ELSE /\ Has(requests, id)
                    /\ requests[id] =
                          SelectSeq(times, LAMBDA t : times[Len(times)] - t < windowMs)

\* a call the fixed-window counter would admit into its new window is rejected
C13_Witness ==
    \E id \in Identifiers :
        \E n \in 1 .. Len(log[id]) :
            /\ ~log[id][n].ok
            /\ FixedWindowAdmits(log[id], n)
            /\ FixedWindowAfter(log[id], n - 1).start > log[id][1].t

\* the calls of lg made at or after the first window boundary (first call + windowMs)
AfterBoundary(lg) == {i \in 1 .. Len(lg) : lg[i].t >= lg[1].t + windowMs}

\* C14 as stated: the limiter admits a burst across the window boundary: the
\* first maxRequests calls made after the boundary, within windowMs of the
\* first of them, all return true whatever was admitted just before it.
C14_BurstAcrossBoundary ==
    \A id \in Identifiers :
        LET lg == log[id]
            after == AfterBoundary(lg)
        IN  \A i \in after :
                LET first == CHOOSE j \in after : \A k \in after : j <= k
                IN  (i - first < maxRequests /\ lg[i].t - lg[first].t < windowMs)
                        => lg[i].ok

\* C14 amended: no burst: of the calls of one identifier made within a span
\* shorter than windowMs at most maxRequests return true.
C14_NoBoundaryBurst ==
    \A id \in Identifiers :
        \A i \in 1 .. Len(log[id]) :
            Cardinality({j \in 1 .. i : /\ log[id][j].ok
                                         /\ log[id][i].t - log[id][j].t < windowMs})
                <= maxRequests

\* right after the boundary a call is rejected although fewer than maxRequests
\* calls were admitted after the boundary
C14_Witness ==
    \E id \in Identifiers :
        LET lg == log[id]
        IN  \E i \in AfterBoundary(lg) :
                /\ ~lg[i].ok
                /\ Cardinality({j \in AfterBoundary(lg) : j < i /\ lg[j].ok}) < maxRequests
                /\ Cardinality({j \in AfterBoundary(lg) : j < i /\ lg[j].ok}) > 0

\* C15: an isAllowed call that returns false leaves the whole limiter state as
\* it was.
C15_RejectedChangesNothing ==
    [][(last'.op = "isAllowed" /\ last'.result = "false") =>
          /\ requests' = requests
          /\ maxRequests' = maxRequests
          /\ windowMs' = windowMs
          /\ now' = now]_vars

\* a second rejection in a row, with the identifier's list still at the limit
C15_Witness ==
    /\ last.op = "isAllowed"
    /\ last.result = "false"
    /\ LET lg == log[last.key]
       IN  /\ Len(lg) >= 2
           /\ ~lg[Len(lg) - 1].ok
           /\ lg[Len(lg) - 1].t < now
    /\ Len(requests[last.key]) = maxRequests

\* ------------------------------------------- SimpleCache delete and get

\* C17: after delete(k) a get(k) returns not-found; delete of an absent key
\* changes no entry and signals no error; a second delete(k) right after the
\* first leaves the store as the first left it.
C17_DeleteIdempotent ==
    [][/\ last'.op = "delete" =>
            /\ last'.result # "error"
            /\ ~Has(cache', last'.key)
            /\ ~Has(cache, last'.key) => cache' = cache
       /\ (last.op = "delete" /\ last'.op = "delete" /\ last'.key = last.key)
            => cache' = cache
       /\ (last'.op = "get" /\ hist[last'.key] \in {"deleted", "deleted twice"})
            => last'.result = NotFound]_vars

\* a get after two deletes of a key whose entry would not have expired yet
C17_Witness ==
    /\ last.op = "get"
    /\ hist[last.key] = "deleted twice"
    /\ now < setAt[last.key] + ttl
    /\ last.result = NotFound

\* C18: get(k) signals no error; on an absent key it returns not-found and on
\* an unexpired key the stored value, the store unchanged in both cases; the
\* only change get ever makes is the removal of k's own expired entry.
C18_GetReadsOnly ==
    [][\A k \in Keys :
        (last'.op = "get" /\ last'.key = k) =>
            /\ last'.result # "error"
            /\ ~Has(cache, k) => (last'.result = NotFound /\ cache' = cache)
            /\ (Has(cache, k) /\ now < cache[k].expiresAt)
                  => (last'.result = cache[k].value /\ cache' = cache)
            /\ cache' # cache =>
                  /\ Has(cache, k)
                  /\ now >= cache[k].expiresAt
                  /\ DOMAIN cache' = (DOMAIN cache) \ {k}
                  /\ \A b \in DOMAIN cache' : cache'[b] = cache[b]]_vars

\* a hit on an unexpired key while another key is stored
C18_Witness ==
    /\ last.op = "get"
    /\ Has(cache, last.key)
    /\ now < cache[last.key].expiresAt
    /\ now > setAt[last.key]
    /\ last.result = cache[last.key].value
    /\ \E b \in Keys \ {last.key} : Has(cache, b)

\* --------------------------------------------------- concurrency claims

\* the admitted calls of id that count at instant t
AdmittedAt(id, t) ==
    {j \in 1 .. Len(log[id]) :
        log[id][j].ok /\ log[id][j].t <= t /\ t - log[id][j].t < windowMs}

\* C16: with several callers in isAllowed for one identifier, every call runs
\* its read, check and write as one step (no caller is ever stopped between
\* them), and at no instant do more than maxRequests admitted calls count.
C16_NoCheckThenActRace ==
    /\ \A c \in Callers : inflight[c] # NoCall => inflight[c].next = 1
    /\ \A id \in Identifiers :
          \A t \in 0 .. MaxTime : Cardinality(AdmittedAt(id, t)) <= maxRequests

\* two callers were in flight for one identifier together, at one instant one
\* took the last free slot and the other was rejected
C16_Witness ==
    \E c1 \in Callers :
        \E c2 \in Callers \ {c1} :
            /\ done[c1].raced /\ done[c2].raced
            /\ done[c1].id = done[c2].id
            /\ done[c1].t = done[c2].t
            /\ done[c1].ok /\ ~done[c2].ok
            /\ Cardinality(AdmittedAt(done[c1].id, now)) = maxRequests

\* ------------------------------------------------- throttle and debounce

\* C19: any two executions of the throttled func are at least delay apart; a
\* call made less than delay after the last execution runs nothing and leaves
\* nothing to run later: func only ever runs inside a call that passes the test.
C19_ThrottleOncePerDelay ==
    [][/\ \A i \in 2 .. Len(execs') : execs'[i].t - execs'[i - 1].t >= throttleDelay
       /\ (/\ last'.op = "throttled"
           /\ execs # <<>>
           /\ now - execs[Len(execs)].t < throttleDelay)
              => (execs' = execs /\ lastCall' = lastCall /\ last'.result = Undefined)
       /\ (last'.op = "throttled" /\ last'.result # Undefined)
              => execs' = Append(execs, [t |-> now, args |-> last'.value])
       /\ last'.op # "throttled" => execs' = execs]_vars

\* two executions, then a later call that is dropped
C19_Witness ==
    /\ last.op = "throttled"
    /\ last.result = Undefined
    /\ Len(execs) = 2
    /\ now > execs[2].t
    /\ now - execs[2].t < throttleDelay
\* C20: func runs only when delay has passed since the most recent call, with
\* that call's arguments; a call followed by another less than delay later
\* never runs; no call runs twice; the most recent call has run or has its
\* timer pending; at most one timer is pending.
C20_DebounceRunsLastCall ==
    /\ Cardinality(timers) <= 1
    /\ \A i \in 1 .. Len(ran) :
          /\ ran[i].id = ran[i].latest
          /\ ran[i].t - dcalls[ran[i].id].t >= debounceDelay
          /\ ran[i].args = dcalls[ran[i].id].args
          /\ \A j \in 1 .. Len(ran) : ran[j].id = ran[i].id => j = i
    /\ \A c \in 1 .. Len(dcalls) - 1 :
          dcalls[c + 1].t - dcalls[c].t < debounceDelay
              => \A i \in 1 .. Len(ran) : ran[i].id # c
    /\ dcalls # <<>> =>
          \/ \E tm \in timers : tm.id = Len(dcalls) /\ tm.args = dcalls[Len(dcalls)].args
          \/ \E i \in 1 .. Len(ran) : ran[i].id = Len(dcalls)

\* a burst of three calls, of which only the last one ran
C20_Witness ==
    /\ Len(dcalls) = 3
    /\ dcalls[3].t > dcalls[1].t
    /\ dcalls[3].args # dcalls[2].args
    /\ Len(ran) = 1
    /\ ran[1].id = 3
    /\ timers = {}

\* ------------------------------------------------------------------ memoize

\* C21: for every argument list fn is invoked at most once: a call made with
\* the arguments of an earlier call does not invoke fn and returns the result
\* of that earlier call, whatever value the result is.
C21_InvokedAtMostOnce ==
    \A i \in 1 .. Len(mcalls) :
        \A j \in 1 .. Len(mcalls) :
            (i < j /\ mcalls[i].args = mcalls[j].args)
                => (~mcalls[j].invoked /\ mcalls[j].result = mcalls[i].result)

\* --------------------------------------------------------------- promiseAll
\* the inputs that rejected, in the order in which they settled
RejectedInOrder == SelectSeq(paSettled, LAMBDA i : paPromises[i].state = "rejected")

\* C22: under every completion order the promise of promiseAll is fulfilled
\* only when every input is fulfilled, with the value of input i at index i;
\* it is rejected with the reason of the input that rejected first; once no
\* reaction job is left it is settled if all inputs fulfilled or one rejected;
\* once settled it never changes; for an empty input it is fulfilled with []
\* by the call itself.
C22_LikePromiseAll ==
    [][/\ paOutcome'.state = "fulfilled" =>
            /\ \A i \in 1 .. Len(paPromises') : paPromises'[i].state = "fulfilled"
            /\ paOutcome'.value = [i \in 1 .. Len(paPromises') |-> paPromises'[i].value]
       /\ paOutcome'.state = "rejected" =>
            /\ RejectedInOrder' # <<>>
            /\ paOutcome'.value = <<paPromises'[RejectedInOrder'[1]].value>>
       /\ (paOutcome'.state # "uncalled" /\ microtasks' = <<>>) =>
            /\ RejectedInOrder' # <<>> => paOutcome'.state = "rejected"
            /\ (\A i \in 1 .. Len(paPromises') : paPromises'[i].state = "fulfilled")
                  => paOutcome'.state = "fulfilled"
       /\ paOutcome.state \in {"fulfilled", "rejected"} => paOutcome' = paOutcome
       /\ (last'.op = "promiseAll" /\ Len(paPromises) = 0)
            => paOutcome' = [state |-> "fulfilled", value |-> <<>>]]_vars

\* three inputs that fulfilled in the order 3, 2, 1 with different values
C22_Witness ==
    /\ paOutcome.state = "fulfilled"
    /\ paSettled = <<3, 2, 1>>
    /\ paPromises[1].value # paPromises[3].value
    /\ paOutcome.value = <<paPromises[1].value, paPromises[2].value, paPromises[3].value>>

\* ------------------------------------------- SimpleCache: eviction and expiry
\* k's entry is in the store and get would find it expired
ExpiredInStore(k) == Has(cache, k) /\ now > cache[k].expiresAt

\* C23: a get(k) that finds k's entry expired removes it and returns
\* not-found, leaving the other entries as they were; hence, if get(k) is
\* eventually called whenever k's entry is expired and in the store, every
\* expired entry eventually leaves the store.
C23_LazyEviction ==
    /\ [][\A k \in Keys :
            (last'.op = "get" /\ last'.key = k /\ ExpiredInStore(k)) =>
                /\ ~Has(cache', k)
                /\ last'.result = NotFound
                /\ \A o \in Keys \ {k} :
                      Has(cache', o) = Has(cache, o) /\ (Has(cache, o) => cache'[o] = cache[o])]_vars
    /\ \A k \in Keys :
          [](ExpiredInStore(k) => <>(last.op = "get" /\ last.key = k))
              => [](ExpiredInStore(k) => <>(~ExpiredInStore(k)))

\* both keys expired in the store, and a get of each evicted it
C23_Witness ==
    /\ last.op = "get"
    /\ hist["a"] = "evicted"
    /\ hist["b"] = "evicted"
    /\ cache = EmptyMap
    /\ now > setAt["a"] + ttl
    /\ now > setAt["b"] + ttl

\* C24: the passage of time alone removes nothing: a clock advance leaves the
\* store as it was; k's entry leaves the store only in a get(k) that finds it
\* expired, a delete(k) or a clear(); and a key that was set and since then
\* neither evicted by get, deleted nor cleared is still in the store, however
\* far the clock has advanced.
C24_NoBackgroundSweep ==
    [][/\ last'.op = "advance" => cache' = cache
       /\ \A k \in Keys :
            /\ (Has(cache, k) /\ ~Has(cache', k)) =>
                  \/ last'.op = "get" /\ last'.key = k /\ now > cache[k].expiresAt
                  \/ last'.op = "delete" /\ last'.key = k
                  \/ last'.op = "clear"
            /\ hist'[k] \in {"set", "overwritten"} => Has(cache', k)]_vars

\* an entry that expired and is still stored at the end of the clock's range
C24_Witness ==
    /\ last.op = "advance"
    /\ now = MaxTime
    /\ Has(cache, "a")
    /\ hist["a"] = "set"
    /\ now > cache["a"].expiresAt + 1

\* C25: the expiresAt of every stored entry is the clock value at the most
\* recent set of its key plus ttl, and no step other than a set of that key
\* changes the expiresAt of an entry that stays in the store.
C25_ExpiresAtIsSetTimePlusTtl ==
    [][\A k \in Keys :
        /\ Has(cache', k) => cache'[k].expiresAt = setAt'[k] + ttl'
        /\ (Has(cache, k) /\ Has(cache', k) /\ ~(last'.op = "set" /\ last'.key = k))
              => cache'[k].expiresAt = cache[k].expiresAt]_vars

\* an entry set after the clock had advanced, read later and still unchanged
C25_Witness ==
    /\ last.op = "get"
    /\ last.key = "a"
    /\ Has(cache, "a")
    /\ Has(cache, "b")
    /\ setAt["a"] > 0
    /\ now > setAt["a"]
    /\ last.result = setVal["a"]
    /\ cache["a"].expiresAt = setAt["a"] + ttl

\* ------------------------------------------------ RateLimiter: the bounds
\* the timestamps recorded for id that isAllowed would still count now
CountedNow(id) == {j \in 1 .. Len(requests[id]) : now - requests[id][j] < windowMs}

\* C26: for every identifier the number of recorded requests that count in
\* its current window is at least 0 and at most maxRequests; so is the length
\* of the list recorded for it.
C26_CountWithinLimit ==
    \A id \in Identifiers :
        Has(requests, id) =>
            /\ Cardinality(CountedNow(id)) >= 0
            /\ Cardinality(CountedNow(id)) <= maxRequests
            /\ Len(requests[id]) <= maxRequests

\* a list filled up to maxRequests by calls made at different instants
C26_Witness ==
    /\ last.op = "isAllowed"
    /\ last.result = "true"
    /\ maxRequests >= 2
    /\ Len(requests[last.key]) = maxRequests
    /\ requests[last.key][1] < now
    /\ Cardinality(CountedNow(last.key)) = maxRequests

\* the calls of id that returned true at a time in (t - windowMs, t]
AdmittedIn(id, t) ==
    {j \in 1 .. Len(log[id]) :
        log[id][j].ok /\ log[id][j].t > t - windowMs /\ log[id][j].t <= t}

\* C27: for every identifier and every instant t at most maxRequests calls
\* returned true at times in the half-open interval (t - windowMs, t].
C27_SlidingWindowBound ==
    \A id \in Identifiers :
        \A t \in 0 .. MaxTime + MaxWindowMs :
            Cardinality(AdmittedIn(id, t)) <= maxRequests

\* an interval that is full with calls admitted at different instants, the
\* earlier of them admitted when an older call had just stopped counting
C27_Witness ==
    \E id \in Identifiers :
        /\ Len(log[id]) >= 4
        /\ log[id][1].ok
        /\ log[id][1].t = now - windowMs
        /\ Cardinality(AdmittedIn(id, now)) = maxRequests
        /\ \E j \in AdmittedIn(id, now) : log[id][j].t < now
        /\ ~log[id][Len(log[id])].ok
        /\ log[id][Len(log[id])].t = now

\* --------------------------------------------------------------- LazyLoader

\* C28: at no time are two invocations of the loader unfinished; a get() made
\* while one is starts no invocation, and the value it receives is the value
\* that invocation produced.
C28_CoalescesConcurrentGets ==
    /\ Cardinality(Unfinished(llLoads)) <= 1
    /\ \A g \in 1 .. Len(llGets) :
          llGets[g].during # 0 =>
              /\ llGets[g].started = 0
              /\ llGets[g].state = "fulfilled" =>
                    /\ llLoads[llGets[g].during].state = "fulfilled"
                    /\ llGets[g].value = llLoads[llGets[g].during].value

\* C29: every promise returned by get() is eventually settled, given that
\* every invocation of the loader settles and every get() that can continue
\* does.
C29_EveryGetSettles ==
    \A g \in 1 .. MaxOps :
        [](Len(llGets) >= g => <>(Len(llGets) >= g /\ llGets[g].state # "pending"))

\* ----------------------------------------------------------- RequestBatcher
RECURSIVE BatchedRequests(_)
\* the requests of the batches, in the order in which the batches were made
BatchedRequests(bs) ==
    IF bs = <<>> THEN <<>> ELSE Head(bs).requests \o BatchedRequests(Tail(bs))

\* add() number id is in a batch whose processBatch() has finished
Processed(id) ==
    \E b \in 1 .. Len(rbBatches) : rbBatches[b].resumed /\ InBatch(rbBatches[b].requests, id)

\* C30: the batches made so far, followed by the queue, are the requests in
\* the order of their add() calls, each once; no batch is empty or longer
\* than batchSize; a timer is pending whenever the queue is not empty; when
\* the processing of a batch has finished each of its promises has been
\* settled by exactly one call, with the result at its own position or with
\* the error; every other promise is pending and untouched.
C30_NothingLostOrDuplicated ==
    /\ BatchedRequests(rbBatches) \o rbQueue = [i \in 1 .. Len(rbPromises) |-> i]
    /\ \A b \in 1 .. Len(rbBatches) :
          /\ Len(rbBatches[b].requests) >= 1
          /\ Len(rbBatches[b].requests) <= batchSize
    /\ rbQueue # <<>> => rbTimers # {}
    /\ \A b \in 1 .. Len(rbBatches) :
          rbBatches[b].resumed =>
              \A i \in 1 .. Len(rbBatches[b].requests) :
                  LET p == rbPromises[rbBatches[b].requests[i]]
                  IN  /\ p.calls = 1
                      /\ p.state = rbBatches[b].state
                      /\ p.value = IF p.state = "fulfilled" THEN rbBatches[b].results[i]
                                   ELSE rbBatches[b].results[1]
    /\ \A id \in 1 .. Len(rbPromises) :
          ~Processed(id) => (rbPromises[id].state = "pending" /\ rbPromises[id].calls = 0)

\* a full batch whose two callers received different results, while a later
\* request waits in the queue with two timers pending
C30_Witness ==
    /\ Len(rbBatches) = 1
    /\ rbBatches[1].resumed
    /\ rbBatches[1].requests = <<1, 2>>
    /\ rbPromises[1].state = "fulfilled"
    /\ rbPromises[1].value # rbPromises[2].value
    /\ rbQueue = <<3>>
    /\ Cardinality(rbTimers) = 2

====
